---- MODULE Spec2Model ----
(***************************************************************************)
(* Federation visibility of room events (service/rooms/state_accessor):    *)
(* Service::server_can_see_event with its LRU verdict cache, the history-  *)
(* visibility and membership resolvers over the immutable snapshot store,  *)
(* and the live room roster.                                               *)
(***************************************************************************)
EXTENDS Integers, Sequences, FiniteSets, TLC

\* ------------------------------------------------------------------ universe
\* Capacity of server_visibility_cache (LruCache::new), scaled down.
CacheCapacity == 2

Servers == {"s1", "s2"}
Users == {"@a:s1", "@b:s1", "@c:s2"}
Rooms == {"r1", "r2"}
Snapshots == {1, 2}
Events == {"e1", "e2", "e3"}

\* UserId::server_name
server_name(member) == IF member = "@c:s2" THEN "s2" ELSE "s1"

\* Raw content of an m.room.history_visibility state entry of a snapshot:
\* "absent" is no entry, "corrupt" is content serde_json cannot decode, "custom"
\* is a well-formed value outside the four the protocol names.
HvEntries == {"absent", "world_readable", "shared", "invited", "joined", "custom", "corrupt"}
\* Raw content of an m.room.member state entry of a snapshot, likewise.
MemberEntries == {"absent", "join", "invite", "leave", "ban", "knock", "corrupt"}

\* Storage failures a call can meet: which database read fails during it.
Faults == {"none", "pdu_shortstatehash", "state_get", "state_get_member"}

\* Option<T>
Some(v) == [some |-> TRUE, val |-> v]
None == [some |-> FALSE, val |-> 0]

\* Result<T>
Ok(v) == [ok |-> TRUE, val |-> v, err |-> "none"]
Err(e) == [ok |-> FALSE, val |-> FALSE, err |-> e]

VARIABLES
    hv_entry,                 \* snapshot store: [Snapshots -> HvEntries], immutable
    member_entry,             \* snapshot store: [Snapshots -> [Users -> MemberEntries]], immutable
    roster,                   \* live room membership index: [Rooms -> SUBSET Users]
    server_visibility_cache,  \* LRU cache: sequence of [key, val], least recently used first
    computed,                 \* per key, the verdict last evaluated and stored ("none": never)
    last,                     \* what the latest server_can_see_event call did and returned
    callers,                  \* per thread, where its server_can_see_event call stands and its locals
    lock                      \* holder of the Mutex around server_visibility_cache, or "free"

vars == <<hv_entry, member_entry, roster, server_visibility_cache, computed, last,
          callers, lock>>

Keys == Servers \X Snapshots

\* ------------------------------------------------------------ snapshot store
\* The snapshot store's event index: the snapshot in effect when each event
\* was accepted; e3 is an event the store does not know.
event_snapshot ==
    [e \in Events |-> IF e = "e1" THEN Some(1)
                      ELSE IF e = "e2" THEN Some(2) ELSE None]

\* Mutant: an event without a snapshot is given snapshot 1.
pdu_shortstatehash_total(event_id, fault) ==
    IF fault = "pdu_shortstatehash" THEN Err("storage")
    ELSE IF event_snapshot[event_id].some THEN Ok(event_snapshot[event_id])
    ELSE Ok(Some(1))

\* Data::pdu_shortstatehash: the snapshot in effect when the event was accepted.
pdu_shortstatehash(event_id, fault) ==
    IF fault = "pdu_shortstatehash" THEN Err("storage")
    ELSE Ok(event_snapshot[event_id])

\* Data::state_get for (RoomHistoryVisibility, ""): the raw entry, if any.
state_get_hv(shortstatehash, fault) ==
    IF fault = "state_get" THEN Err("storage")
    ELSE IF hv_entry[shortstatehash] = "absent" THEN Ok(None)
    ELSE Ok(Some(hv_entry[shortstatehash]))

\* Data::state_get for (RoomMember, user_id): the raw entry, if any.
state_get_member(shortstatehash, user_id, fault) ==
    IF fault = "state_get_member" THEN Err("storage")
    ELSE IF member_entry[shortstatehash][user_id] = "absent" THEN Ok(None)
    ELSE Ok(Some(member_entry[shortstatehash][user_id]))

\* serde_json::from_str::<RoomHistoryVisibilityEventContent>(..).history_visibility:
\* undecodable content is an error, an unnamed value decodes to _Custom.
decode_history_visibility(content) ==
    IF content = "corrupt" THEN Err("bad_database")
    ELSE IF content = "world_readable" THEN Ok("WorldReadable")
    ELSE IF content = "shared" THEN Ok("Shared")
    ELSE IF content = "invited" THEN Ok("Invited")
    ELSE IF content = "joined" THEN Ok("Joined")
    ELSE Ok("_Custom")

\* serde_json::from_str::<RoomMemberEventContent>(..).membership
decode_membership(content) ==
    IF content = "corrupt" THEN Err("bad_database")
    ELSE IF content = "join" THEN Ok("Join")
    ELSE IF content = "invite" THEN Ok("Invite")
    ELSE IF content = "leave" THEN Ok("Leave")
    ELSE IF content = "ban" THEN Ok("Ban")
    ELSE IF content = "knock" THEN Ok("Knock")
    ELSE Ok("_Custom")

\* ------------------------------------------------------------------ resolvers
\* Mutant: a user without a membership entry is taken for a joined member.
user_membership_default_join(shortstatehash, user_id, fault) ==
    LET s == state_get_member(shortstatehash, user_id, fault) IN
    IF ~s.ok THEN Err(s.err)
    ELSE IF ~s.val.some THEN Ok("Join")
    ELSE decode_membership(s.val.val)

\* Service::user_membership
user_membership(shortstatehash, user_id, fault) ==
    LET s == state_get_member(shortstatehash, user_id, fault) IN
    IF ~s.ok THEN Err(s.err)
    ELSE IF ~s.val.some THEN Ok("Leave")
    ELSE decode_membership(s.val.val)

\* Mutant: an invite counts as having joined.
user_was_joined_or_invited(shortstatehash, user_id, fault) ==
    LET m == user_membership(shortstatehash, user_id, fault) IN
    IF m.ok THEN (m.val = "Join" \/ m.val = "Invite") ELSE FALSE

\* Service::user_was_joined
user_was_joined(shortstatehash, user_id, fault) ==
    LET m == user_membership(shortstatehash, user_id, fault) IN
    IF m.ok THEN m.val = "Join" ELSE FALSE

\* Mutant: only a join counts, an invite does not.
user_was_invited_join_only(shortstatehash, user_id, fault) ==
    LET m == user_membership(shortstatehash, user_id, fault) IN
    IF m.ok THEN m.val = "Join" ELSE FALSE

\* Mutant: a membership that cannot be resolved counts as invited (fails open).
user_was_invited_fail_open(shortstatehash, user_id, fault) ==
    LET m == user_membership(shortstatehash, user_id, fault) IN
    IF m.ok THEN (m.val = "Join" \/ m.val = "Invite") ELSE TRUE

\* Service::user_was_invited
user_was_invited(shortstatehash, user_id, fault) ==
    LET m == user_membership(shortstatehash, user_id, fault) IN
    IF m.ok THEN (m.val = "Join" \/ m.val = "Invite") ELSE FALSE

\* Mutant: undecodable content falls back to the default instead of failing.
history_visibility_lenient(shortstatehash, fault) ==
    LET s == state_get_hv(shortstatehash, fault) IN
    IF ~s.ok THEN Err(s.err)
    ELSE IF ~s.val.some \/ s.val.val = "corrupt" THEN Ok("Shared")
    ELSE decode_history_visibility(s.val.val)

\* Mutant: undecodable content is taken for an unrecognised value.
history_visibility_custom(shortstatehash, fault) ==
    LET s == state_get_hv(shortstatehash, fault) IN
    IF ~s.ok THEN Err(s.err)
    ELSE IF ~s.val.some THEN Ok("Shared")
    ELSE IF s.val.val = "corrupt" THEN Ok("_Custom")
    ELSE decode_history_visibility(s.val.val)

\* Mutant: a storage failure of the read is taken for an absent entry.
history_visibility_swallow(shortstatehash, fault) ==
    LET s == state_get_hv(shortstatehash, fault) IN
    IF ~s.ok \/ ~s.val.some THEN Ok("Shared")
    ELSE decode_history_visibility(s.val.val)

\* The history-visibility resolution of server_can_see_event (lines 116-124).
history_visibility(shortstatehash, fault) ==
    LET s == state_get_hv(shortstatehash, fault) IN
    IF ~s.ok THEN Err(s.err)
    ELSE IF ~s.val.some THEN Ok("Shared")
    ELSE decode_history_visibility(s.val.val)

\* state_cache.room_members(room_id): one Result per roster row; with broken, the
\* enumeration also meets a row that does not load and yields an error for it.
room_members(room_id, broken) ==
    {[ok |-> TRUE, user |-> u] : u \in roster[room_id]}
        \cup (IF broken THEN {[ok |-> FALSE, user |-> "?"]} ELSE {})

\* Mutant: a row that does not load discards the whole enumeration.
current_server_members_all_or_nothing(room_id, origin, broken) ==
    IF \E x \in room_members(room_id, broken) : ~x.ok THEN {}
    ELSE {u \in roster[room_id] : server_name(u) = origin}

\* .filter_map(|r| r.ok()).filter(|member| member.server_name() == origin)
current_server_members(room_id, origin, broken) ==
    {r.user : r \in {x \in room_members(room_id, broken) :
                        x.ok /\ server_name(x.user) = origin}}

\* Mutant: Shared is treated like Invited.
visibility_shared_needs_member(hv, members, shortstatehash, fault) ==
    IF hv = "WorldReadable" THEN TRUE
    ELSE IF hv = "Invited" \/ hv = "Shared"
        THEN \E member \in members : user_was_invited(shortstatehash, member, fault)
    ELSE IF hv = "Joined"
        THEN \E member \in members : user_was_joined(shortstatehash, member, fault)
    ELSE FALSE

\* The match on history_visibility (lines 133-147).
visibility(hv, members, shortstatehash, fault) ==
    IF hv = "WorldReadable" \/ hv = "Shared" THEN TRUE
    ELSE IF hv = "Invited"
        THEN \E member \in members : user_was_invited(shortstatehash, member, fault)
    ELSE IF hv = "Joined"
        THEN \E member \in members : user_was_joined(shortstatehash, member, fault)
    ELSE FALSE

\* ---------------------------------------------------------------- LRU cache
RECURSIVE IndexOf(_, _, _)
IndexOf(cache, key, i) ==
    IF i > Len(cache) THEN 0
    ELSE IF cache[i].key = key THEN i
    ELSE IndexOf(cache, key, i + 1)

Without(cache, i) == SubSeq(cache, 1, i - 1) \o SubSeq(cache, i + 1, Len(cache))

\* Mutant: the lookup never finds the entry.
get_mut_uncached(cache, key) == [found |-> FALSE, val |-> FALSE, cache |-> cache]

\* Mutant: the lookup matches on the snapshot alone, whatever the server.
get_mut_any_server(cache, key) ==
    IF \E i \in 1..Len(cache) : cache[i].key[2] = key[2]
    THEN LET i == CHOOSE j \in 1..Len(cache) : cache[j].key[2] = key[2] IN
         [found |-> TRUE, val |-> cache[i].val,
          cache |-> Append(Without(cache, i), cache[i])]
    ELSE [found |-> FALSE, val |-> FALSE, cache |-> cache]

\* Mutant: the lookup reads the entry without refreshing its recency (peek).
get_mut_peek(cache, key) ==
    LET i == IndexOf(cache, key, 1) IN
    IF i = 0 THEN [found |-> FALSE, val |-> FALSE, cache |-> cache]
    ELSE [found |-> TRUE, val |-> cache[i].val, cache |-> cache]

\* LruCache::get_mut: the entry, if present, becomes the most recently used.
get_mut(cache, key) ==
    LET i == IndexOf(cache, key, 1) IN
    IF i = 0 THEN [found |-> FALSE, val |-> FALSE, cache |-> cache]
    ELSE [found |-> TRUE, val |-> cache[i].val,
          cache |-> Append(Without(cache, i), cache[i])]

\* LruCache::insert: upsert as most recently used, then drop the least
\* recently used entry while over capacity.
insert(cache, key, val) ==
    LET i == IndexOf(cache, key, 1)
        put == Append(IF i = 0 THEN cache ELSE Without(cache, i),
                      [key |-> key, val |-> val])
    IN IF Len(put) > CacheCapacity THEN Tail(put) ELSE put

\* ------------------------------------------------------------- the operation
\* Service::server_can_see_event as a function of the state and of what the
\* environment does during the call: the value returned, the cache it leaves,
\* and the collaborators it invoked on the way.
server_can_see_event(origin, room_id, event_id, fault, broken) ==
    LET cache == server_visibility_cache
        ssh == pdu_shortstatehash(event_id, fault)
    IN
    IF ~ssh.ok THEN
        [ret |-> Err(ssh.err), cache |-> cache, path |-> "error",
         calls |-> {"pdu_shortstatehash"}, evaluated |-> FALSE]
    ELSE IF ~ssh.val.some THEN
        [ret |-> Ok(FALSE), cache |-> cache, path |-> "unknown",
         calls |-> {"pdu_shortstatehash"}, evaluated |-> FALSE]
    ELSE
    LET shortstatehash == ssh.val.val
        key == <<origin, shortstatehash>>
        cached == get_mut(cache, key)
    IN
    IF cached.found THEN
        [ret |-> Ok(cached.val), cache |-> cached.cache, path |-> "hit",
         calls |-> {"pdu_shortstatehash", "get_mut"}, evaluated |-> FALSE]
    ELSE
    LET hv == history_visibility(shortstatehash, fault) IN
    IF ~hv.ok THEN
        [ret |-> Err(hv.err), cache |-> cached.cache, path |-> "error",
         calls |-> {"pdu_shortstatehash", "get_mut", "state_get"},
         evaluated |-> FALSE]
    ELSE
    LET members == current_server_members(room_id, origin, broken)
        verdict == visibility(hv.val, members, shortstatehash, fault)
    IN  [ret |-> Ok(verdict), cache |-> insert(cached.cache, key, verdict),
         path |-> "miss",
         calls |-> {"pdu_shortstatehash", "get_mut", "state_get",
                    "room_members", "insert"},
         evaluated |-> TRUE]

\* The key a call works under, when its event has a snapshot.
KeyOf(origin, event_id) ==
    LET ssh == pdu_shortstatehash(event_id, "none") IN
    IF ssh.val.some THEN <<origin, ssh.val.val>> ELSE <<origin, 0>>

NoCall ==
    [origin |-> "-", room_id |-> "-", event_id |-> "-", broken |-> FALSE,
     ret |-> Ok(FALSE), path |-> "none", calls |-> {}]

\* The threads that call into the service, and a thread that is not in a call.
Callers == {"p1", "p2"}

Idle ==
    [pc |-> "idle", origin |-> "-", room_id |-> "-", event_id |-> "-",
     shortstatehash |-> 0, history_visibility |-> "-", visibility |-> FALSE,
     ret |-> Ok(FALSE), path |-> "none", locked |-> 0]

\* Mutant: the guard of the lookup lives on after a miss.
guard_after_get_mut_kept(p, found) == IF found THEN "free" ELSE p

\* The MutexGuard of the lookup is a temporary of the if-let statement: it is
\* dropped when the statement ends, by the return inside it or by falling
\* through on a miss.
guard_after_get_mut(p, found) == "free"

\* Mutant: the guard of the insert is never dropped.
guard_after_insert_leaked(p) == p

\* The MutexGuard of the insert is a temporary of the expression statement: it
\* is dropped at its semicolon, before Ok(visibility).
guard_after_insert(p) == "free"

\* ------------------------------------------------------------------- actions
\* A caller runs server_can_see_event(origin, room_id, event_id) to completion.
ServerCanSeeEvent(origin, room_id, event_id, fault, broken) ==
    LET out == server_can_see_event(origin, room_id, event_id, fault, broken)
        key == KeyOf(origin, event_id)
    IN
    /\ server_visibility_cache' = out.cache
    /\ computed' = IF out.evaluated
                      THEN [computed EXCEPT ![key] = IF out.ret.val THEN "true" ELSE "false"]
                      ELSE computed
    /\ last' = [origin |-> origin, room_id |-> room_id, event_id |-> event_id,
                broken |-> broken /\ out.path = "miss",
                ret |-> out.ret, path |-> out.path, calls |-> out.calls]
    /\ UNCHANGED <<hv_entry, member_entry, roster, callers, lock>>

\* The live roster gains a member (state_cache, outside this service).
RosterJoin(room_id, user_id) ==
    /\ user_id \notin roster[room_id]
    /\ roster' = [roster EXCEPT ![room_id] = @ \cup {user_id}]
    /\ UNCHANGED <<hv_entry, member_entry, server_visibility_cache, computed, last,
                   callers, lock>>

\* The live roster loses a member.
RosterLeave(room_id, user_id) ==
    /\ user_id \in roster[room_id]
    /\ roster' = [roster EXCEPT ![room_id] = @ \ {user_id}]
    /\ UNCHANGED <<hv_entry, member_entry, server_visibility_cache, computed, last,
                   callers, lock>>

\* ------------------------------------------------- the handler, step by step
\* The same handler as a thread runs it next to other threads: one action per
\* call it makes, the lock taken and released where the code does.
Returns(p, ret, path) ==
    [callers EXCEPT ![p].pc = "done", ![p].ret = ret, ![p].path = path]

\* A thread enters server_can_see_event(origin, room_id, event_id).
Call(p, origin, room_id, event_id) ==
    /\ callers[p].pc = "idle"
    /\ callers' = [callers EXCEPT ![p] =
                      [Idle EXCEPT !.pc = "pdu_shortstatehash", !.origin = origin,
                                   !.room_id = room_id, !.event_id = event_id]]
    /\ UNCHANGED <<hv_entry, member_entry, roster, server_visibility_cache,
                   computed, last, lock>>

\* self.pdu_shortstatehash(event_id)?, and the match on its Option.
StepPduShortstatehash(p, fault) ==
    LET ssh == pdu_shortstatehash(callers[p].event_id, fault) IN
    /\ callers[p].pc = "pdu_shortstatehash"
    /\ callers' = IF ~ssh.ok THEN Returns(p, Err(ssh.err), "error")
                  ELSE IF ~ssh.val.some THEN Returns(p, Ok(FALSE), "unknown")
                  ELSE [callers EXCEPT ![p].pc = "lock_get",
                                       ![p].shortstatehash = ssh.val.val]
    /\ UNCHANGED <<hv_entry, member_entry, roster, server_visibility_cache,
                   computed, last, lock>>

\* self.server_visibility_cache.lock(): blocks until the Mutex is free.
StepLock(p) ==
    /\ callers[p].pc \in {"lock_get", "lock_insert"}
    /\ lock = "free"
    /\ lock' = p
    /\ callers' = [callers EXCEPT
                      ![p].pc = IF @ = "lock_get" THEN "get_mut" ELSE "insert",
                      ![p].locked = @ + 1]
    /\ UNCHANGED <<hv_entry, member_entry, roster, server_visibility_cache,
                   computed, last>>

\* .get_mut(&(origin, shortstatehash)) under the guard; return on a hit.
StepGetMut(p) ==
    LET c == callers[p]
        cached == get_mut(server_visibility_cache, <<c.origin, c.shortstatehash>>)
    IN
    /\ c.pc = "get_mut"
    /\ server_visibility_cache' = cached.cache
    /\ lock' = guard_after_get_mut(p, cached.found)
    /\ callers' = IF cached.found THEN Returns(p, Ok(cached.val), "hit")
                  ELSE [callers EXCEPT ![p].pc = "state_get"]
    /\ UNCHANGED <<hv_entry, member_entry, roster, computed, last>>

\* self.state_get(shortstatehash, RoomHistoryVisibility, "")? and its decoding.
StepStateGet(p, fault) ==
    LET hv == history_visibility(callers[p].shortstatehash, fault) IN
    /\ callers[p].pc = "state_get"
    /\ callers' = IF ~hv.ok THEN Returns(p, Err(hv.err), "error")
                  ELSE [callers EXCEPT ![p].pc = "room_members",
                                       ![p].history_visibility = hv.val]
    /\ UNCHANGED <<hv_entry, member_entry, roster, server_visibility_cache,
                   computed, last, lock>>

\* The roster enumeration and the match on history_visibility.
StepRoomMembers(p, broken) ==
    LET c == callers[p]
        members == current_server_members(c.room_id, c.origin, broken)
    IN
    /\ c.pc = "room_members"
    /\ callers' = [callers EXCEPT
                      ![p].pc = "lock_insert",
                      ![p].visibility = visibility(c.history_visibility, members,
                                                   c.shortstatehash, "none")]
    /\ UNCHANGED <<hv_entry, member_entry, roster, server_visibility_cache,
                   computed, last, lock>>

\* .insert((origin, shortstatehash), visibility) under the guard, dropped at
\* the end of the statement; Ok(visibility).
StepInsert(p) ==
    LET c == callers[p] IN
    /\ c.pc = "insert"
    /\ server_visibility_cache' =
            insert(server_visibility_cache, <<c.origin, c.shortstatehash>>, c.visibility)
    /\ lock' = guard_after_insert(p)
    /\ callers' = Returns(p, Ok(c.visibility), "miss")
    /\ UNCHANGED <<hv_entry, member_entry, roster, computed, last>>

\* Any step of the call of thread p after it has entered the handler.
CallerStep(p) ==
    \/ \E fault \in {"none", "pdu_shortstatehash"} : StepPduShortstatehash(p, fault)
    \/ StepLock(p)
    \/ StepGetMut(p)
    \/ \E fault \in {"none", "state_get"} : StepStateGet(p, fault)
    \/ StepRoomMembers(p, FALSE)
    \/ StepInsert(p)

\* ------------------------------------------------------------ specifications
\* Snapshots are written once by the ingestion pipeline and never change
\* afterwards: the model draws their contents at the start.
MemberMapA ==
    [u \in Users |-> IF u = "@a:s1" THEN "join"
                     ELSE IF u = "@b:s1" THEN "invite" ELSE "leave"]
MemberMapB ==
    [u \in Users |-> IF u = "@a:s1" THEN "invite"
                     ELSE IF u = "@b:s1" THEN "absent" ELSE "join"]

\* Cache dynamics: every history-visibility content for snapshot 1, both
\* servers, all events, a roster of r1 that changes between calls.
Init ==
    /\ hv_entry \in {h \in [Snapshots -> HvEntries] : h[2] = "joined"}
    /\ member_entry = [s \in Snapshots |-> IF s = 1 THEN MemberMapA ELSE MemberMapB]
    /\ roster = [r \in Rooms |-> {}]
    /\ server_visibility_cache = <<>>
    /\ computed = [k \in Keys |-> "none"]
    /\ last = NoCall
    /\ callers = [p \in Callers |-> Idle]
    /\ lock = "free"

Next ==
    \/ \E origin \in Servers, event_id \in Events :
            ServerCanSeeEvent(origin, "r1", event_id, "none", FALSE)
    \/ \E user_id \in Users : RosterJoin("r1", user_id)
    \/ \E user_id \in Users : RosterLeave("r1", user_id)

Spec == Init /\ [][Next]_vars

\* Policy matrix: every history-visibility content and every membership
\* content of snapshot 1, every roster of r1, calls of server s1 for event e1.
InitPolicy ==
    /\ hv_entry \in {h \in [Snapshots -> HvEntries] : h[2] = "joined"}
    /\ member_entry \in {m \in [Snapshots -> [Users -> MemberEntries]] : m[2] = MemberMapB}
    /\ roster \in {r \in [Rooms -> SUBSET Users] : r["r2"] = {}}
    /\ server_visibility_cache = <<>>
    /\ computed = [k \in Keys |-> "none"]
    /\ last = NoCall
    /\ callers = [p \in Callers |-> Idle]
    /\ lock = "free"

NextPolicy ==
    \E broken \in BOOLEAN : ServerCanSeeEvent("s1", "r1", "e1", "none", broken)

SpecPolicy == InitPolicy /\ [][NextPolicy]_vars

\* Storage failures: the cache dynamics of Spec with calls during which one
\* of the database reads fails, over three contents of snapshot 1.
InitFaults ==
    /\ Init
    /\ hv_entry[1] \in {"absent", "invited", "corrupt"}

NextFaults ==
    \/ \E origin \in Servers, event_id \in Events, fault \in Faults :
            ServerCanSeeEvent(origin, "r1", event_id, fault, FALSE)
    \/ \E user_id \in Users : RosterJoin("r1", user_id)
    \/ \E user_id \in Users : RosterLeave("r1", user_id)

SpecFaults == InitFaults /\ [][NextFaults]_vars

\* Rooms: callers pass either room with an event of either snapshot; the
\* rosters of the two rooms are any two sets of users and do not change.
InitRooms ==
    /\ hv_entry \in {h \in [Snapshots -> HvEntries] :
                        h[1] \in {"invited", "joined"} /\ h[2] = "joined"}
    /\ member_entry = [s \in Snapshots |-> IF s = 1 THEN MemberMapA ELSE MemberMapB]
    /\ roster \in [Rooms -> SUBSET Users]
    /\ server_visibility_cache = <<>>
    /\ computed = [k \in Keys |-> "none"]
    /\ last = NoCall
    /\ callers = [p \in Callers |-> Idle]
    /\ lock = "free"

NextRooms ==
    \E origin \in Servers, room_id \in Rooms, event_id \in Events :
        ServerCanSeeEvent(origin, room_id, event_id, "none", FALSE)

SpecRooms == InitRooms /\ [][NextRooms]_vars

\* Concurrency: two threads each make one call, for either server and any
\* event of room r1, while users join and leave the roster of r1. Every
\* thread that can take a step eventually takes one (the scheduler is weakly
\* fair to each thread); calls and roster changes need not happen.
InitConc ==
    /\ Init
    /\ hv_entry[1] = "joined"

NextConc ==
    \/ \E p \in Callers, origin \in Servers, event_id \in Events :
            Call(p, origin, "r1", event_id)
    \/ \E p \in Callers : CallerStep(p)
    \/ \E user_id \in Users : RosterJoin("r1", user_id)
    \/ \E user_id \in Users : RosterLeave("r1", user_id)

SpecConc ==
    InitConc /\ [][NextConc]_vars /\ \A p \in Callers : WF_vars(CallerStep(p))

\* -------------------------------------------------------------------- claims
\* A step in which server_can_see_event(origin, room_id, event_id) runs while
\* the storage behaves as fault says.
CalledWith(origin, room_id, event_id, fault) ==
    /\ last'.origin = origin /\ last'.room_id = room_id /\ last'.event_id = event_id
    /\ \E broken \in BOOLEAN : ServerCanSeeEvent(origin, room_id, event_id, fault, broken)

\* The snapshot of an event that has one.
SnapshotOf(event_id) == event_snapshot[event_id].val
HasSnapshot(event_id) == event_snapshot[event_id].some
KnownEvents == {e \in Events : HasSnapshot(e)}

Cached(cache, key) == \E i \in 1..Len(cache) : cache[i].key = key
CachedAs(cache, key, val) ==
    \E i \in 1..Len(cache) : cache[i].key = key /\ cache[i].val = val

\* The room whose history a snapshot belongs to: both snapshots are points in
\* the history of r1; r2 is another room.
RoomOf(shortstatehash) == "r1"

\* The verdict a policy evaluation made now, in the snapshot's room and with
\* the storage healthy, produces for a key whose history visibility decodes.
FreshVerdict(key) ==
    visibility(history_visibility(key[2], "none").val,
               current_server_members(RoomOf(key[2]), key[1], FALSE),
               key[2], "none")

\* Whether some member of the roster of room_id on server origin has, in the
\* snapshot, a membership entry among contents.
SomeMemberWith(room_id, origin, shortstatehash, contents) ==
    \E u \in roster[room_id] :
        /\ server_name(u) = origin
        /\ member_entry[shortstatehash][u] \in contents

\* C1 (as claimed): in every reachable state the verdict cached under a key
\* equals the verdict a fresh policy evaluation for that key would produce.
C1_CachedVerdictNeverStale ==
    \A i \in 1..Len(server_visibility_cache) :
        server_visibility_cache[i].val = FreshVerdict(server_visibility_cache[i].key)

\* C2 (as claimed): once a verdict was computed for a key, every later call for
\* that key returns that verdict and invokes neither state_get nor room_members.
C2_ComputedOnceNeverRecomputed ==
    [][\A origin \in Servers, room_id \in Rooms, event_id \in KnownEvents :
        LET key == <<origin, SnapshotOf(event_id)>> IN
        (CalledWith(origin, room_id, event_id, "none") /\ computed[key] # "none")
            => /\ last'.ret = Ok(computed[key] = "true")
               /\ "state_get" \notin last'.calls
               /\ "room_members" \notin last'.calls]_vars

\* C2 (amended): once a verdict was computed for a key, every later call for
\* that key made while the entry is still in the cache returns that verdict
\* and invokes neither state_get nor room_members.
C2_CachedNeverRecomputed ==
    [][\A origin \in Servers, room_id \in Rooms, event_id \in KnownEvents :
        LET key == <<origin, SnapshotOf(event_id)>> IN
        (CalledWith(origin, room_id, event_id, "none")
            /\ Cached(server_visibility_cache, key))
            => /\ computed[key] # "none"
               /\ last'.ret = Ok(computed[key] = "true")
               /\ "state_get" \notin last'.calls
               /\ "room_members" \notin last'.calls]_vars

\* C2 witness: a call answered from the cache after a miss of another key.
C2_Witness ==
    /\ last.path = "hit"
    /\ Len(server_visibility_cache) = 2
    /\ \E k \in Keys : computed[k] # "none" /\ ~Cached(server_visibility_cache, k)

C4_ResolutionFailureNotCached ==
    [][\A origin \in Servers, room_id \in Rooms, event_id \in KnownEvents :
        (hv_entry[SnapshotOf(event_id)] = "corrupt"
            /\ CalledWith(origin, room_id, event_id, "none"))
            => /\ server_visibility_cache' = server_visibility_cache
               /\ ~Cached(server_visibility_cache', <<origin, SnapshotOf(event_id)>>)
               /\ "state_get" \in last'.calls
               /\ "insert" \notin last'.calls]_vars

\* C4 witness: such a call has returned with other verdicts in the cache.
C4_Witness ==
    /\ last.event_id = "e1"
    /\ hv_entry[1] = "corrupt"
    /\ "state_get" \in last.calls
    /\ Len(server_visibility_cache) = 2

\* C5: a call for an event without a snapshot returns false, leaves the cache
\* as it was, order included, and invokes nothing but pdu_shortstatehash.
C5_UnknownEventNoEffect ==
    [][\A origin \in Servers, room_id \in Rooms, event_id \in Events \ KnownEvents :
        CalledWith(origin, room_id, event_id, "none")
            => /\ last'.ret = Ok(FALSE)
               /\ server_visibility_cache' = server_visibility_cache
               /\ last'.calls = {"pdu_shortstatehash"}]_vars

\* C5 witness: such a call has returned with verdicts in the cache.
C5_Witness ==
    /\ last.event_id = "e3"
    /\ last.ret = Ok(FALSE)
    /\ Len(server_visibility_cache) = 2

\* C6 (as claimed): for a snapshot whose history visibility is an unrecognised
\* value every call returns false, and once the verdict was computed for a key
\* no later call for it reads the history-visibility entry again.
C6_UnknownPolicyResolvedOnce ==
    [][\A origin \in Servers, room_id \in Rooms, event_id \in KnownEvents :
        LET key == <<origin, SnapshotOf(event_id)>> IN
        (hv_entry[key[2]] = "custom"
            /\ CalledWith(origin, room_id, event_id, "none"))
            => /\ last'.ret = Ok(FALSE)
               /\ computed[key] # "none" => "state_get" \notin last'.calls]_vars

\* C6 (amended): for a snapshot whose history visibility is an unrecognised
\* value every call returns false and leaves false cached under the key, and a
\* call reads the history-visibility entry exactly when the key is not in the
\* cache: on the first call, and again only after the entry was evicted.
C6_UnknownPolicyResolvedPerResidency ==
    [][\A origin \in Servers, room_id \in Rooms, event_id \in KnownEvents :
        LET key == <<origin, SnapshotOf(event_id)>> IN
        (hv_entry[key[2]] = "custom"
            /\ CalledWith(origin, room_id, event_id, "none"))
            => /\ last'.ret = Ok(FALSE)
               /\ CachedAs(server_visibility_cache', key, FALSE)
               /\ "state_get" \in last'.calls
                    <=> ~Cached(server_visibility_cache, key)]_vars

\* C6 witness: the deny of an unrecognised value answered from the cache.
C6_Witness ==
    /\ last.event_id = "e1"
    /\ hv_entry[1] = "custom"
    /\ last.path = "hit"
    /\ last.ret = Ok(FALSE)

\* C7: on a cache miss with history visibility Invited the call returns true
\* exactly when some roster member of the room on the requesting server has
\* membership Invite or Join in the event's snapshot.
C7_InvitedPolicy ==
    [][\A origin \in Servers, room_id \in Rooms, event_id \in KnownEvents :
        LET ssh == SnapshotOf(event_id) IN
        (hv_entry[ssh] = "invited"
            /\ ~Cached(server_visibility_cache, <<origin, ssh>>)
            /\ CalledWith(origin, room_id, event_id, "none"))
            => last'.ret = Ok(SomeMemberWith(room_id, origin, ssh, {"invite", "join"}))]_vars

\* C7 witness: access granted by a member who was only invited.
C7_Witness ==
    /\ last.path = "miss"
    /\ hv_entry[1] = "invited"
    /\ last.ret = Ok(TRUE)
    /\ roster["r1"] = {"@a:s1", "@c:s2"}
    /\ member_entry[1]["@a:s1"] = "invite"

\* C8: on a cache miss with history visibility Joined the call returns true
\* exactly when some roster member of the room on the requesting server has
\* membership Join in the event's snapshot.
C8_JoinedPolicy ==
    [][\A origin \in Servers, room_id \in Rooms, event_id \in KnownEvents :
        LET ssh == SnapshotOf(event_id) IN
        (hv_entry[ssh] = "joined"
            /\ ~Cached(server_visibility_cache, <<origin, ssh>>)
            /\ CalledWith(origin, room_id, event_id, "none"))
            => last'.ret = Ok(SomeMemberWith(room_id, origin, ssh, {"join"}))]_vars

\* C8 witness: access denied although a member was invited.
C8_Witness ==
    /\ last.path = "miss"
    /\ hv_entry[1] = "joined"
    /\ last.ret = Ok(FALSE)
    /\ "@a:s1" \in roster["r1"]
    /\ member_entry[1]["@a:s1"] = "invite"

\* C9: with history visibility WorldReadable or Shared every call returns
\* true, whatever the roster and the membership entries are.
C9_OpenVisibilityAllows ==
    [][\A origin \in Servers, room_id \in Rooms, event_id \in KnownEvents :
        (hv_entry[SnapshotOf(event_id)] \in {"world_readable", "shared"}
            /\ CalledWith(origin, room_id, event_id, "none"))
            => last'.ret = Ok(TRUE)]_vars

\* C9 witness: access granted over an empty roster.
C9_Witness ==
    /\ last.path = "miss"
    /\ hv_entry[1] = "shared"
    /\ last.ret = Ok(TRUE)
    /\ roster["r1"] = {}

\* C10: a snapshot without a history-visibility entry is Shared, so every call
\* returns true; a user without a membership entry is Leave, so under Invited
\* or Joined a verdict of true needs a member whose entry is present.
C10_AbsentEntriesDefault ==
    [][\A origin \in Servers, room_id \in Rooms, event_id \in KnownEvents :
        LET ssh == SnapshotOf(event_id) IN
        CalledWith(origin, room_id, event_id, "none")
            => /\ hv_entry[ssh] = "absent" => last'.ret = Ok(TRUE)
               /\ (hv_entry[ssh] \in {"invited", "joined"}
                        /\ ~Cached(server_visibility_cache, <<origin, ssh>>)
                        /\ last'.ret = Ok(TRUE))
                    => SomeMemberWith(room_id, origin, ssh,
                                      MemberEntries \ {"absent"})]_vars

\* C10 witness: access denied to a server whose only member has no entry.
C10_Witness ==
    /\ last.path = "miss"
    /\ hv_entry[1] = "invited"
    /\ last.ret = Ok(FALSE)
    /\ roster["r1"] = {"@a:s1"}
    /\ member_entry[1]["@a:s1"] = "absent"

\* The keys of a cache in recency order, and that order with one key left out.
KeysIn(cache) == [i \in 1..Len(cache) |-> cache[i].key]
KeysExcept(cache, key) == SelectSeq(KeysIn(cache), LAMBDA k : k # key)

\* C11: the cache never holds more than CacheCapacity entries nor a key twice;
\* an entry leaves it only as the least recently used one (the head) when an
\* insert of another key finds the cache full; a call moves the key it looked
\* up or inserted to the most recently used end and keeps the order of the rest.
C11_BoundedLruEvictionOnly ==
    [][/\ Len(server_visibility_cache') <= CacheCapacity
       /\ \A i, j \in 1..Len(server_visibility_cache') :
            server_visibility_cache'[i].key = server_visibility_cache'[j].key => i = j
       /\ \A k \in Keys :
            (Cached(server_visibility_cache, k) /\ ~Cached(server_visibility_cache', k))
                => /\ Len(server_visibility_cache) = CacheCapacity
                   /\ server_visibility_cache[1].key = k
                   /\ "insert" \in last'.calls
                   /\ <<last'.origin, SnapshotOf(last'.event_id)>> # k
                   /\ Len(server_visibility_cache') = CacheCapacity
       /\ \A origin \in Servers, room_id \in Rooms, event_id \in KnownEvents :
            LET key == <<origin, SnapshotOf(event_id)>>
                kept == KeysExcept(server_visibility_cache', key)
                had == KeysExcept(server_visibility_cache, key)
            IN  ("get_mut" \in last'.calls /\ Cached(server_visibility_cache', key)
                    /\ CalledWith(origin, room_id, event_id, "none"))
                => /\ server_visibility_cache'[Len(server_visibility_cache')].key = key
                   /\ kept = had \/ kept = Tail(had)]_vars

\* C11 witness: a hit made the older entry the most recently used one, and
\* another key has been evicted before.
C11_Witness ==
    /\ last.path = "hit"
    /\ Len(server_visibility_cache) = CacheCapacity
    /\ server_visibility_cache[Len(server_visibility_cache)].key = <<"s1", 1>>
    /\ computed[<<"s2", 1>>] # "none"
    /\ ~Cached(server_visibility_cache, <<"s2", 1>>)

\* The policy as the protocol states it, over raw contents: the verdict for
\* origin given the history-visibility content, the users of the roster and
\* their membership contents in the snapshot.
RefVerdict(hv_content, users, entries, origin) ==
    IF hv_content \in {"absent", "world_readable", "shared"} THEN TRUE
    ELSE IF hv_content = "invited"
        THEN \E u \in users : server_name(u) = origin /\ entries[u] \in {"invite", "join"}
    ELSE IF hv_content = "joined"
        THEN \E u \in users : server_name(u) = origin /\ entries[u] = "join"
    ELSE FALSE

\* C14: under Invited or Joined, when a roster member on the requesting server
\* has an undecodable membership entry, the call still returns a boolean, that
\* member counts as neither joined nor invited, and the verdict is stored in
\* the cache under (server, snapshot).
C14_MembershipFailsClosedAndCached ==
    [][\A origin \in Servers, room_id \in Rooms, event_id \in KnownEvents :
        LET ssh == SnapshotOf(event_id) IN
        (hv_entry[ssh] \in {"invited", "joined"}
            /\ ~Cached(server_visibility_cache, <<origin, ssh>>)
            /\ SomeMemberWith(room_id, origin, ssh, {"corrupt"})
            /\ CalledWith(origin, room_id, event_id, "none"))
            => /\ last'.ret = Ok(RefVerdict(hv_entry[ssh], roster[room_id],
                                            member_entry[ssh], origin))
               /\ CachedAs(server_visibility_cache', <<origin, ssh>>, last'.ret.val)]_vars

\* C14 witness: the deny for a server whose only member has an undecodable
\* entry is in the cache.
C14_Witness ==
    /\ last.path = "miss"
    /\ hv_entry[1] = "invited"
    /\ roster["r1"] = {"@a:s1"}
    /\ member_entry[1]["@a:s1"] = "corrupt"
    /\ last.ret = Ok(FALSE)
    /\ CachedAs(server_visibility_cache, <<"s1", 1>>, FALSE)

\* C18: a roster row that fails to load never makes the call fail and never
\* counts as a member: the verdict is the one over the rows that loaded.
C18_BrokenRosterRowsSkipped ==
    [][\A origin \in Servers, room_id \in Rooms, event_id \in KnownEvents :
        LET ssh == SnapshotOf(event_id) IN
        (hv_entry[ssh] # "corrupt"
            /\ ~Cached(server_visibility_cache, <<origin, ssh>>)
            /\ ServerCanSeeEvent(origin, room_id, event_id, "none", TRUE))
            => last'.ret = Ok(RefVerdict(hv_entry[ssh], roster[room_id],
                                         member_entry[ssh], origin))]_vars

\* C18 witness: access granted by a loaded row although another row failed.
C18_Witness ==
    /\ last.path = "miss"
    /\ last.broken
    /\ hv_entry[1] = "joined"
    /\ last.ret = Ok(TRUE)

\* C15: a call during which pdu_shortstatehash fails, or during which the
\* read of the history-visibility entry fails (the read happens when the key
\* is not cached), returns the storage error and leaves the cache as it was.
C15_StorageFailurePropagates ==
    [][\A origin \in Servers, room_id \in Rooms, event_id \in Events :
        /\ CalledWith(origin, room_id, event_id, "pdu_shortstatehash")
            => /\ last'.ret = Err("storage")
               /\ server_visibility_cache' = server_visibility_cache
        /\ (HasSnapshot(event_id)
                /\ ~Cached(server_visibility_cache, <<origin, SnapshotOf(event_id)>>)
                /\ CalledWith(origin, room_id, event_id, "state_get"))
            => /\ last'.ret = Err("storage")
               /\ server_visibility_cache' = server_visibility_cache]_vars

\* C15 witness: a read of the history-visibility entry has failed with
\* verdicts of other keys in the cache.
C15_Witness ==
    /\ last.ret = Err("storage")
    /\ "state_get" \in last.calls
    /\ Len(server_visibility_cache) = CacheCapacity

\* The users of a server.
UsersOf(origin) == {u \in Users : server_name(u) = origin}

\* C16: under Invited or Joined the verdict computed for a server is the one
\* the policy gives for every roster and every snapshot contents that agree
\* with the actual ones on that server's users; and a call looks up and writes
\* only the entry keyed by its own server and snapshot: it is answered from the
\* cache exactly when that key is cached, with that entry's verdict, and the
\* verdicts cached under other keys stay as they were.
C16_VerdictsIsolatedPerServer ==
    [][\A origin \in Servers, room_id \in Rooms, event_id \in KnownEvents :
        LET ssh == SnapshotOf(event_id)
            key == <<origin, ssh>>
            cache == server_visibility_cache
        IN
        (hv_entry[ssh] \in {"invited", "joined"}
            /\ CalledWith(origin, room_id, event_id, "none"))
            => /\ ~Cached(cache, key) =>
                    \A others \in SUBSET (Users \ UsersOf(origin)),
                       contents \in [Users \ UsersOf(origin) -> MemberEntries] :
                        LET users == (roster[room_id] \cap UsersOf(origin)) \cup others
                            entries == [u \in Users |->
                                          IF u \in UsersOf(origin)
                                          THEN member_entry[ssh][u] ELSE contents[u]]
                        IN last'.ret = Ok(RefVerdict(hv_entry[ssh], users, entries, origin))
               /\ Cached(cache, key) <=> "state_get" \notin last'.calls
               /\ Cached(cache, key) => CachedAs(cache, key, last'.ret.val)
               /\ \A k \in Keys \ {key} : \A v \in BOOLEAN :
                    CachedAs(server_visibility_cache', k, v) => CachedAs(cache, k, v)]_vars

\* C16 witness: s2 is denied on a miss while the verdict true of s1 for the
\* same snapshot is in the cache, and a member of s1 is in the roster.
C16_Witness ==
    /\ last.path = "miss"
    /\ last.origin = "s2"
    /\ last.event_id = "e1"
    /\ hv_entry[1] = "joined"
    /\ last.ret = Ok(FALSE)
    /\ "@a:s1" \in roster["r1"]
    /\ CachedAs(server_visibility_cache, <<"s1", 1>>, TRUE)

\* C17: a call that passes the event's own room returns the verdict that the
\* policy gives for that room's roster, whatever calls were made before it,
\* calls with another room for the same server and event included.
C17_OwnRoomVerdictIgnoresOtherRooms ==
    [][\A origin \in Servers, event_id \in KnownEvents :
        LET ssh == SnapshotOf(event_id) IN
        CalledWith(origin, RoomOf(ssh), event_id, "none")
            => last'.ret = Ok(RefVerdict(hv_entry[ssh], roster[RoomOf(ssh)],
                                         member_entry[ssh], origin))]_vars

\* C12: the lock is held by a thread only while that thread is at its lookup
\* or at its insert; no thread holds it while it resolves the snapshot, reads
\* the history-visibility entry or enumerates the roster, nor outside a call.
C12_LockOnlyAroundLookupOrInsert ==
    /\ lock \in Callers \cup {"free"}
    /\ \A p \in Callers : lock = p => callers[p].pc \in {"get_mut", "insert"}

\* C12 witness: one thread holds the lock for its insert while the other is
\* reading the history-visibility entry.
C12_Witness ==
    \E p, q \in Callers :
        /\ lock = p
        /\ callers[p].pc = "insert"
        /\ callers[q].pc = "state_get"

\* Positions of the entries of a key in the cache.
EntriesOf(key) ==
    {i \in 1..Len(server_visibility_cache) : server_visibility_cache[i].key = key}

\* C13: when two threads have both missed for the same (server, snapshot) and
\* both have evaluated and inserted, they have returned the same verdict and
\* the cache holds exactly one entry for the key, with that verdict.
C13_ConcurrentMissesAgree ==
    \A p, q \in Callers :
        (/\ p # q
         /\ callers[p].pc = "done" /\ callers[p].path = "miss"
         /\ callers[q].pc = "done" /\ callers[q].path = "miss"
         /\ callers[p].origin = callers[q].origin
         /\ callers[p].shortstatehash = callers[q].shortstatehash)
            => /\ callers[p].ret = callers[q].ret
               /\ \E i \in 1..Len(server_visibility_cache) :
                    /\ EntriesOf(<<callers[p].origin, callers[p].shortstatehash>>) = {i}
                    /\ server_visibility_cache[i].val = callers[p].ret.val

\* C19: every call that has started eventually returns; and always, a thread
\* has taken the lock at most twice, holds it neither when it is about to take
\* it nor once it has returned, and a thread inside a call can take a step or
\* waits for the lock held by a thread that can.
C19_EveryCallReturns ==
    /\ \A p \in Callers : (callers[p].pc # "idle") ~> (callers[p].pc = "done")
    /\ [](\A p \in Callers :
            /\ callers[p].locked <= 2
            /\ callers[p].pc \in {"lock_get", "lock_insert", "done", "idle"} => lock # p
            /\ callers[p].pc \notin {"idle", "done"}
                => \/ ENABLED CallerStep(p)
                   \/ \E q \in Callers \ {p} : lock = q /\ ENABLED CallerStep(q))

\* C19 witness: both threads have returned and the lock is free, one after a
\* miss with two acquisitions, the other after a hit with one.
C19_Witness ==
    \E p, q \in Callers :
        /\ callers[p].pc = "done" /\ callers[p].path = "miss" /\ callers[p].locked = 2
        /\ callers[q].pc = "done" /\ callers[q].path = "hit" /\ callers[q].locked = 1
        /\ lock = "free"

====
